---- MODULE Spec2Model ----
(***************************************************************************)
(* Model of scripts/sammen_rss.py: an RSS feed derived from the article    *)
(* listing of sammen.no.  Strings are modelled as sequences of tokens: a   *)
(* URL is a sequence such as <<"/", "no", "/", "artikkel", "/", "a">>, a   *)
(* date string a sequence such as <<"D2", "+01:00">>, a description a      *)
(* sequence of characters.                                                 *)
(***************************************************************************)
EXTENDS Integers, Sequences, FiniteSets, TLC

VARIABLES
    pc,           \* position of main(), or phase of a function-level specification
    max_items,    \* args.max_items
    links,        \* main: links returned by parse_list
    idx,          \* main: 1-based position of the for loop over links
    items,        \* main: the items list
    log,          \* requests and sleeps made through the Fetcher / time.sleep, in order
    feed,         \* the items of the document written to args.out
    page,         \* parse_list: href values of the selected anchors, in document order
    unique,       \* parse_list: returned list
    art,          \* parse_article: the article page (date-related markup, HEAD response)
    res,          \* parse_article: resolved pubDate and whether HEAD was requested
    src,          \* parse_article: description sources of the article page
    description   \* parse_article: item["description"]

vars == <<pc, max_items, links, idx, items, log, feed, page, unique, art, res, src, description>>

-----------------------------------------------------------------------------
(* Bounds *)

MaxHrefs == 4        \* anchors on a listing page given to parse_list alone
MaxRunHrefs == 3     \* anchors on the listing page of a whole run
MaxItemsArg == 3     \* largest --max-items tried
MaxText == 242       \* length of the run of letters in a description source

-----------------------------------------------------------------------------
(* Generic sequence helpers *)

StartsWith(s, p) == Len(s) >= Len(p) /\ SubSeq(s, 1, Len(p)) = p

Contains(s, p) == \E i \in 1..(Len(s) - Len(p) + 1) : SubSeq(s, i, i + Len(p) - 1) = p

SeqsUpTo(S, n) == UNION {[1..k -> S] : k \in 0..n}

Min(a, b) == IF a < b THEN a ELSE b

Max(a, b) == IF a > b THEN a ELSE b

RECURSIVE LStrip(_, _)
LStrip(s, C) == IF s # <<>> /\ s[1] \in C THEN LStrip(Tail(s), C) ELSE s

RECURSIVE RStrip(_, _)
RStrip(s, C) == IF s # <<>> /\ s[Len(s)] \in C THEN RStrip(SubSeq(s, 1, Len(s) - 1), C) ELSE s

Strip(s, C) == RStrip(LStrip(s, C), C)

-----------------------------------------------------------------------------
(* URLs: to_abs, urlparse(u).path, parse_list *)

Origin == "https://sammen.no"

ArticlePrefix == <<"/", "no", "/", "artikkel", "/">>

\* url.startswith("http") else urljoin(base, url); every modelled reference
\* is absolute or root-relative, for which urljoin puts the base origin in front.
to_abs(base, url) == IF url # <<>> /\ url[1] = Origin THEN url ELSE <<base>> \o url

RECURSIVE UpToQuery(_)
UpToQuery(s) == IF s = <<>> \/ s[1] \in {"?", "#"} THEN <<>> ELSE <<s[1]>> \o UpToQuery(Tail(s))

\* urlparse(u).path of an absolute URL
UrlPath(u) == UpToQuery(Tail(u))

\* the filter of the first loop of parse_list, selector included
KeepHref(base, href) ==
    LET path == UrlPath(to_abs(base, href))
    IN  /\ Contains(href, ArticlePrefix)
        /\ path # <<>>
        /\ StartsWith(path, ArticlePrefix)
        /\ Strip(path, {"/"}) # <<"no", "/", "artikkel">>

RECURSIVE CollectHrefs(_, _)
CollectHrefs(base, anchors) ==
    IF anchors = <<>> THEN <<>>
    ELSE (IF KeepHref(base, Head(anchors)) THEN <<to_abs(base, Head(anchors))>> ELSE <<>>)
         \o CollectHrefs(base, Tail(anchors))

RECURSIVE DedupNone(_, _)
DedupNone(hrefs, seen) == hrefs

RECURSIVE Dedup(_, _)
Dedup(hrefs, seen) ==
    IF hrefs = <<>> THEN <<>>
    ELSE LET p == UrlPath(Head(hrefs))
         IN  IF p \notin seen
             THEN <<Head(hrefs)>> \o Dedup(Tail(hrefs), seen \cup {p})
             ELSE Dedup(Tail(hrefs), seen)

parse_list(base, anchors) == Dedup(CollectHrefs(base, anchors), {})

Hrefs ==
    { <<"/", "no", "/", "artikkel", "/", "a">>,
      <<"/", "no", "/", "artikkel", "/", "a", "?", "ref=1">>,
      <<"/", "no", "/", "artikkel", "/", "a", "/">>,
      <<"/", "no", "/", "artikkel", "/", "b">>,
      <<Origin, "/", "no", "/", "artikkel", "/", "b", "#", "top">>,
      <<"/", "no", "/", "artikkel">>,
      <<"/", "no", "/", "artikkel", "/">>,
      <<"/", "en", "?", "next=", "/", "no", "/", "artikkel", "/", "a">> }

InitCommon ==
    /\ max_items = 0
    /\ links = <<>>
    /\ idx = 1
    /\ items = <<>>
    /\ log = <<>>
    /\ feed = <<>>
    /\ unique = <<>>
    /\ res = <<>>
    /\ description = <<>>

InitList ==
    /\ InitCommon
    /\ pc = "list_in"
    /\ page \in SeqsUpTo(Hrefs, MaxHrefs)
    /\ art = <<>>
    /\ src = <<>>

RunParseList ==
    /\ pc = "list_in"
    /\ unique' = parse_list(Origin, page)
    /\ pc' = "list_out"
    /\ UNCHANGED <<max_items, links, idx, items, log, feed, page, art, res, src, description>>

NextList == RunParseList

SpecList == InitList /\ [][NextList]_vars

-----------------------------------------------------------------------------
(* Dates: parse_iso_date, parse_date_from_jsonld, the date part of parse_article *)

\* a datetime object; some = FALSE is None.  wall is the wall-clock reading,
\* aware tells whether tzinfo is set and off is the UTC offset when it is.
None == [some |-> FALSE, wall |-> 0, aware |-> FALSE, off |-> 0]

Naive(w) == [some |-> TRUE, wall |-> w, aware |-> FALSE, off |-> 0]

Aware(w, o) == [some |-> TRUE, wall |-> w, aware |-> TRUE, off |-> o]

DateToks == {"D1", "D2", "D3"}

Wall(tok) == CASE tok = "D1" -> 1 [] tok = "D2" -> 2 [] OTHER -> 3

OffsetToks == {"+00:00", "+01:00"}

OffsetOf(tok) == IF tok = "+01:00" THEN 1 ELSE 0

\* a value handed to parse_iso_date: a string (k = "str"), a missing key or
\* null (k = "absent", k = "null"), or a truthy value that is no string (k = "num")
Str(s) == [k |-> "str", s |-> s]

Absent == [k |-> "absent", s |-> <<>>]

Null == [k |-> "null", s |-> <<>>]

Num == [k |-> "num", s |-> <<>>]

Truthy(v) == v.k = "num" \/ (v.k = "str" /\ v.s # <<>>)

ReplaceZ(s) == [i \in 1..Len(s) |-> IF s[i] = "Z" THEN "+00:00" ELSE s[i]]

\* datetime.fromisoformat; None stands for the ValueError caught by the caller
FromIsoFormat(t) ==
    IF Len(t) = 1 /\ t[1] \in DateToks THEN Naive(Wall(t[1]))
    ELSE IF Len(t) = 2 /\ t[1] \in DateToks /\ t[2] \in OffsetToks
         THEN Aware(Wall(t[1]), OffsetOf(t[2]))
         ELSE None

parse_iso_date(v) ==
    IF ~Truthy(v) THEN None
    ELSE IF v.k # "str" THEN None      \* s.strip() raises, caught
    ELSE FromIsoFormat(ReplaceZ(Strip(v.s, {" "})))

\* JSON values: t = "dict" with the keys datePublished (dp), article and
\* mainEntityOfPage (main); t = "list" with items; t = "scalar"
Nested(v) == [isdict |-> TRUE, dp |-> v]

NoDict == [isdict |-> FALSE, dp |-> Absent]

Dict(dp, a, m) == [t |-> "dict", dp |-> dp, article |-> a, main |-> m, items |-> <<>>]

List(its) == [t |-> "list", dp |-> Absent, article |-> NoDict, main |-> NoDict, items |-> its]

Scalar == [t |-> "scalar", dp |-> Absent, article |-> NoDict, main |-> NoDict, items |-> <<>>]

RECURSIVE extract(_)
RECURSIVE extract_list(_)
extract(d) ==
    IF d.t = "dict" THEN
        IF d.dp.k # "absent" THEN parse_iso_date(d.dp)
        ELSE IF d.article.isdict /\ Truthy(d.article.dp) THEN parse_iso_date(d.article.dp)
        ELSE IF d.main.isdict /\ Truthy(d.main.dp) THEN parse_iso_date(d.main.dp)
        ELSE None
    ELSE IF d.t = "list" THEN extract_list(d.items)
    ELSE None

extract_list(its) ==
    IF its = <<>> THEN None
    ELSE LET dt == extract(Head(its))
         IN  IF dt.some THEN dt ELSE extract_list(Tail(its))

\* a block is the text of one script tag: ok tells whether json.loads accepts it
RECURSIVE parse_date_from_jsonld(_)
parse_date_from_jsonld(blocks) ==
    IF blocks = <<>> THEN None
    ELSE IF ~Head(blocks).ok THEN parse_date_from_jsonld(Tail(blocks))
    ELSE LET dt == extract(Head(blocks).v)
         IN  IF dt.some THEN dt ELSE parse_date_from_jsonld(Tail(blocks))

\* Fetcher.get_head: the headers, or {} on any error
get_head(h) == IF h.ok THEN h.lm ELSE Absent

\* datetime.strptime(lm, "%a, %d %b %Y %H:%M:%S %Z").replace(tzinfo=timezone.utc)
parse_last_modified(lm) ==
    IF ~Truthy(lm) THEN None
    ELSE IF Len(lm.s) = 2 /\ lm.s[1] \in DateToks /\ lm.s[2] \in {"GMT", "UTC"}
         THEN Aware(Wall(lm.s[1]), 0)
         ELSE None

\* the four tiers of parse_article, each as the code computes it
MetaTier(a) == IF a.meta.present /\ a.meta.content # <<>>
               THEN parse_iso_date(Str(a.meta.content)) ELSE None

TimeTier(a) == IF a.time.present THEN parse_iso_date(Str(a.time.datetime)) ELSE None

JsonldTier(a) == parse_date_from_jsonld(a.jsonld)

HeadTier(a) == parse_last_modified(get_head(a.head))

resolve_date_jsonld_first(a) ==
    LET p1 == JsonldTier(a)
        p2 == IF p1.some THEN p1 ELSE MetaTier(a)
        p3 == IF p2.some THEN p2 ELSE TimeTier(a)
    IN  IF p3.some THEN [pub |-> p3, head |-> FALSE]
        ELSE [pub |-> HeadTier(a), head |-> TRUE]

\* lines 187-208: pub, and whether fetcher.get_head was called
resolve_date(a) ==
    LET p1 == MetaTier(a)
        p2 == IF p1.some THEN p1 ELSE TimeTier(a)
        p3 == IF p2.some THEN p2 ELSE JsonldTier(a)
    IN  IF p3.some THEN [pub |-> p3, head |-> FALSE]
        ELSE [pub |-> HeadTier(a), head |-> TRUE]

NoTag == [present |-> FALSE, content |-> <<>>, datetime |-> <<>>]

MetaTag(s) == [present |-> TRUE, content |-> s, datetime |-> <<>>]

TimeTag(s) == [present |-> TRUE, content |-> <<>>, datetime |-> s]

DateStrs ==
    { <<>>, <<"x">>, <<"D1">>, <<" ", "D1", "Z", " ">>, <<"D2", "+01:00">>, <<"D3", "Z">> }

Block(v) == [ok |-> TRUE, v |-> v]

BadJson == [ok |-> FALSE, v |-> Scalar]

JsonDicts ==
    { Dict(dp, a, m) :
        dp \in {Absent, Null, Num, Str(<<"x">>), Str(<<"D2", "Z">>)},
        a \in {NoDict, Nested(Absent), Nested(Str(<<"x">>)), Nested(Str(<<"D1", "Z">>))},
        m \in {NoDict, Nested(Str(<<"D3">>))} }

ListDicts ==
    { Dict(Absent, NoDict, NoDict), Dict(Str(<<"x">>), NoDict, NoDict),
      Dict(Str(<<"D1", "Z">>), NoDict, NoDict), Dict(Str(<<"D3">>), NoDict, NoDict) }

JsonValues == JsonDicts \cup {List(l) : l \in SeqsUpTo(ListDicts, 2)} \cup {Scalar}

JsonBlocks == {BadJson} \cup {Block(v) : v \in JsonValues}

JsonldScripts ==
    {<<>>} \cup {<<b>> : b \in JsonBlocks}
           \cup { <<b1, b2>> : b1 \in {BadJson, Block(Dict(Str(<<"x">>), NoDict, NoDict))},
                               b2 \in {BadJson, Block(Scalar), Block(Dict(Str(<<"D2", "Z">>), NoDict, NoDict))} }

HeadResponses ==
    { [ok |-> FALSE, lm |-> Absent], [ok |-> TRUE, lm |-> Absent],
      [ok |-> TRUE, lm |-> Str(<<"x">>)], [ok |-> TRUE, lm |-> Str(<<"D1", "GMT">>)],
      [ok |-> TRUE, lm |-> Str(<<"D3", "GMT">>)] }

ArticlePages ==
    [ meta : {NoTag} \cup {MetaTag(s) : s \in DateStrs},
      time : {NoTag} \cup {TimeTag(s) : s \in DateStrs},
      jsonld : JsonldScripts,
      head : HeadResponses ]

InitDate ==
    /\ InitCommon
    /\ pc = "date_in"
    /\ art \in ArticlePages
    /\ page = <<>>
    /\ src = <<>>

RunResolveDate ==
    /\ pc = "date_in"
    /\ res' = resolve_date(art)
    /\ pc' = "date_out"
    /\ UNCHANGED <<max_items, links, idx, items, log, feed, page, unique, art, src, description>>

NextDate == RunResolveDate

SpecDate == InitDate /\ [][NextDate]_vars

-----------------------------------------------------------------------------
(* Descriptions: clean_text, truncate, the description chain of parse_article *)

\* the character U+2026 appended by truncate
Ellipsis == "U+2026"

SetMin(S) == CHOOSE x \in S : \A y \in S : x <= y

SetMax(S) == CHOOSE x \in S : \A y \in S : x >= y

\* The matches of <[^>]+> in s, found left to right: a match never crosses a
\* ">", so between two consecutive ">" (at prv and nxt) the only match runs
\* from the first "<" to nxt, provided at least one character separates them.
MatchStartAt(s, i) ==
    LET after == {k \in i..Len(s) : s[k] = ">"}
        prv == SetMax({0} \cup {g \in 1..(i - 1) : s[g] = ">"})
        nxt == SetMin(after)
        lts == {j \in (prv + 1)..(nxt - 1) : s[j] = "<"}
    IN  IF after = {} \/ lts = {} THEN 0
        ELSE IF SetMin(lts) <= i /\ SetMin(lts) + 2 <= nxt THEN SetMin(lts) ELSE 0

Positions(n) == [i \in 1..n |-> i]

\* re.sub(r"<[^>]+>", " ", s)
SubTags(s) ==
    LET ix == SelectSeq(Positions(Len(s)),
                        LAMBDA i : MatchStartAt(s, i) = 0 \/ MatchStartAt(s, i) = i)
    IN  [k \in 1..Len(ix) |-> IF MatchStartAt(s, ix[k]) = ix[k] THEN " " ELSE s[ix[k]]]

\* re.sub(r"\s+", " ", s)
SubSpaces(s) ==
    LET ix == SelectSeq(Positions(Len(s)), LAMBDA i : ~(s[i] = " " /\ i > 1 /\ s[i - 1] = " "))
    IN  [k \in 1..Len(ix) |-> s[ix[k]]]

clean_text(s) == IF s = <<>> THEN <<>> ELSE Strip(SubSpaces(SubTags(s)), {" "})

truncate_keep_max_len(txt, max_len) ==
    LET t == clean_text(txt)
    IN  IF Len(t) > max_len THEN SubSeq(t, 1, max_len) \o <<Ellipsis>> ELSE t

truncate(txt, max_len) ==
    LET t == clean_text(txt)
    IN  IF Len(t) > max_len THEN SubSeq(t, 1, max_len - 1) \o <<Ellipsis>> ELSE t

DefaultMaxLen == 240

\* lines 163-176: meta description, og:description, first paragraph
pick_desc(s) ==
    IF s.md.present /\ s.md.text # <<>> THEN s.md.text
    ELSE IF s.ogd.present /\ s.ogd.text # <<>> THEN s.ogd.text
    ELSE IF s.p.present THEN s.p.text
    ELSE <<>>

article_description(s) == truncate(pick_desc(s), DefaultMaxLen)

Letters(n) == [i \in 1..n |-> "a"]

\* short texts, and texts around the limit of truncate
TextLengths == 0..3 \cup (MaxText - 6)..MaxText

TextShapes == {"plain", "ellipsis", "tag", "midtag", "spaces", "emptytag", "open", "pad"}

Text(shape, n) ==
    CASE shape = "plain" -> Letters(n)
      [] shape = "ellipsis" -> Letters(n) \o <<Ellipsis>>
      [] shape = "tag" -> <<"<", "a", ">">> \o Letters(n)
      [] shape = "midtag" -> <<"a", "<", "<", "a", ">">> \o Letters(n) \o <<"<", "a", ">">>
      [] shape = "spaces" -> <<"a", " ", " ", " ">> \o Letters(n)
      [] shape = "emptytag" -> <<"<", ">">> \o Letters(n)
      [] shape = "open" -> Letters(n) \o <<"<", "a">>
      [] OTHER -> <<" ">> \o Letters(n) \o <<" ", " ">>

NoText == [present |-> FALSE, text |-> <<>>]

Elem(t) == [present |-> TRUE, text |-> t]

DescSources ==
    { [md |-> Elem(Text(sh, n)), ogd |-> Elem(<<"b">>), p |-> Elem(<<"b">>)] :
          sh \in TextShapes, n \in TextLengths }
    \cup { [md |-> Elem(<<>>), ogd |-> Elem(Text(sh, n)), p |-> Elem(<<"b">>)] :
          sh \in {"plain", "ellipsis"}, n \in TextLengths }
    \cup { [md |-> NoText, ogd |-> NoText, p |-> Elem(Text(sh, n))] :
          sh \in {"plain", "midtag"}, n \in TextLengths }
    \cup { [md |-> NoText, ogd |-> NoText, p |-> NoText] }

InitDesc ==
    /\ InitCommon
    /\ pc = "desc_in"
    /\ src \in DescSources
    /\ page = <<>>
    /\ art = <<>>

RunDescription ==
    /\ pc = "desc_in"
    /\ description' = article_description(src)
    /\ pc' = "desc_out"
    /\ UNCHANGED <<max_items, links, idx, items, log, feed, page, unique, art, res, src>>

NextDesc == RunDescription

SpecDesc == InitDesc /\ [][NextDesc]_vars

-----------------------------------------------------------------------------
(* main: fetch the listing, visit the articles, sort, limit, write *)

ListUrl == <<Origin, "/", "no", "/", "artikkel">>

GetList(ok) == [op |-> "GET_LIST", url |-> ListUrl, ok |-> ok]

Get(url, ok) == [op |-> "GET", url |-> url, ok |-> ok]

HeadReq(url) == [op |-> "HEAD", url |-> url, ok |-> TRUE]

Sleep == [op |-> "SLEEP", url |-> <<>>, ok |-> TRUE]

\* the dict returned by parse_article; title, description and image are not
\* read by the sort and the limit and are left out of the run
Item(url, pub) == [link |-> url, pubDate |-> pub, guid |-> url]

\* the requests parse_article makes for a page that was fetched, and its result
parse_article(url, a) ==
    LET r == resolve_date(a)
    IN  [item |-> Item(url, r.pub),
         reqs |-> <<Get(url, TRUE)>> \o (IF r.head THEN <<HeadReq(url)>> ELSE <<>>)]

\* comparison of two datetime objects of the same kind
DtGreater(a, b) == IF a.aware THEN a.wall - a.off > b.wall - b.off ELSE a.wall > b.wall

KeyLess(x, y) ==
    IF x.pubDate.some # y.pubDate.some THEN y.pubDate.some
    ELSE IF ~x.pubDate.some THEN FALSE
    ELSE DtGreater(y.pubDate, x.pubDate)

\* the sort key (pubDate is not None, pubDate or datetime.min): is key(x) > key(y)
KeyGreater(x, y) ==
    IF x.pubDate.some # y.pubDate.some THEN x.pubDate.some
    ELSE IF ~x.pubDate.some THEN FALSE
    ELSE DtGreater(x.pubDate, y.pubDate)

\* comparing an offset-naive with an offset-aware datetime raises TypeError;
\* the tuple comparison reaches the datetimes only when both items are dated
SortTypeError(its) ==
    \E i, j \in 1..Len(its) :
        /\ its[i].pubDate.some /\ its[j].pubDate.some
        /\ its[i].pubDate.aware # its[j].pubDate.aware

RECURSIVE InsertStable(_, _)
InsertStable(sorted, x) ==
    IF sorted = <<>> THEN <<x>>
    ELSE IF KeyGreater(x, Head(sorted)) THEN <<x>> \o sorted
    ELSE <<Head(sorted)>> \o InsertStable(Tail(sorted), x)

\* items.sort(key=..., reverse=True): descending and stable
RECURSIVE SortedItems(_)
SortedItems(its) ==
    IF its = <<>> THEN <<>>
    ELSE InsertStable(SortedItems(SubSeq(its, 1, Len(its) - 1)), its[Len(its)])

\* email.utils.format_datetime: the wall-clock reading and the zone, "-0000"
\* for a datetime without tzinfo
format_datetime(dt) ==
    [wall |-> dt.wall,
     zone |-> IF ~dt.aware THEN "-0000" ELSE IF dt.off = 1 THEN "+0100" ELSE "+0000"]

\* the item elements build_rss creates
build_rss(its) ==
    [i \in 1..Len(its) |->
        [link |-> its[i].link, guid |-> its[i].guid,
         has_pubDate |-> its[i].pubDate.some,
         pubDate |-> IF its[i].pubDate.some THEN format_datetime(its[i].pubDate)
                     ELSE [wall |-> 0, zone |-> ""]]]

RunHrefs ==
    { <<"/", "no", "/", "artikkel", "/", "a">>,
      <<"/", "no", "/", "artikkel", "/", "a", "?", "ref=1">>,
      <<"/", "no", "/", "artikkel", "/", "a", "/">>,
      <<"/", "no", "/", "artikkel", "/", "b">>,
      <<"/", "no", "/", "artikkel", "/">> }

RunArticles ==
    [ meta : {NoTag, MetaTag(<<"x">>), MetaTag(<<"D1">>), MetaTag(<<"D2", "+01:00">>)},
      time : {NoTag, TimeTag(<<"D3", "Z">>)},
      jsonld : {<<>>, <<BadJson>>, <<Block(Dict(Str(<<"D2", "Z">>), NoDict, NoDict))>>},
      head : { [ok |-> FALSE, lm |-> Absent], [ok |-> TRUE, lm |-> Absent],
               [ok |-> TRUE, lm |-> Str(<<"D1", "GMT">>)] } ]

Init ==
    /\ pc = "start"
    /\ max_items \in -1..MaxItemsArg
    /\ links = <<>>
    /\ idx = 1
    /\ items = <<>>
    /\ log = <<>>
    /\ feed = <<>>
    /\ page = <<>>
    /\ unique = <<>>
    /\ art = <<>>
    /\ res = <<>>
    /\ src = <<>>
    /\ description = <<>>

\* line 264, fetcher.get_text succeeds
ParseList ==
    /\ pc = "start"
    /\ \E listing \in SeqsUpTo(RunHrefs, MaxRunHrefs) : links' = parse_list(Origin, listing)
    /\ log' = Append(log, GetList(TRUE))
    /\ pc' = "loop"
    /\ UNCHANGED <<max_items, idx, items, feed, page, unique, art, res, src, description>>

\* line 264, fetcher.get_text raises: nothing catches it
ParseListRaises ==
    /\ pc = "start"
    /\ log' = Append(log, GetList(FALSE))
    /\ pc' = "raised"
    /\ UNCHANGED <<max_items, links, idx, items, feed, page, unique, art, res, src, description>>

ArticleSkippedNoSleep ==
    /\ pc = "loop"
    /\ idx <= Len(links)
    /\ log' = log \o <<Get(links[idx], FALSE)>>
    /\ idx' = idx + 1
    /\ UNCHANGED <<pc, max_items, links, items, feed, page, unique, art, res, src, description>>

ArticleSkippedRaises ==
    /\ pc = "loop"
    /\ idx <= Len(links)
    /\ log' = log \o <<Get(links[idx], FALSE)>>
    /\ pc' = "raised"
    /\ UNCHANGED <<idx, max_items, links, items, feed, page, unique, art, res, src, description>>

\* lines 268-272, parse_article returns None: its fetch raised
ArticleSkipped ==
    /\ pc = "loop"
    /\ idx <= Len(links)
    /\ log' = log \o <<Get(links[idx], FALSE), Sleep>>
    /\ idx' = idx + 1
    /\ UNCHANGED <<pc, max_items, links, items, feed, page, unique, art, res, src, description>>

\* lines 268-272, parse_article returns an item
ArticleBuilt ==
    /\ pc = "loop"
    /\ idx <= Len(links)
    /\ \E a \in RunArticles :
          LET r == parse_article(links[idx], a)
          IN  /\ items' = Append(items, r.item)
              /\ log' = log \o r.reqs \o <<Sleep>>
    /\ idx' = idx + 1
    /\ UNCHANGED <<pc, max_items, links, feed, page, unique, art, res, src, description>>

\* line 275
SortItems ==
    /\ pc = "loop"
    /\ idx > Len(links)
    /\ ~SortTypeError(items)
    /\ items' = SortedItems(items)
    /\ pc' = "limit"
    /\ UNCHANGED <<max_items, links, idx, log, feed, page, unique, art, res, src, description>>

\* line 275, the comparison of two keys raises TypeError
SortRaises ==
    /\ pc = "loop"
    /\ idx > Len(links)
    /\ SortTypeError(items)
    /\ pc' = "raised"
    /\ UNCHANGED <<max_items, links, idx, items, log, feed, page, unique, art, res, src, description>>

LimitItemsNoClamp ==
    /\ pc = "limit"
    /\ items' = SubSeq(items, 1, Min(Len(items), max_items))
    /\ pc' = "write"
    /\ UNCHANGED <<max_items, links, idx, log, feed, page, unique, art, res, src, description>>

\* line 278
LimitItems ==
    /\ pc = "limit"
    /\ items' = SubSeq(items, 1, Min(Len(items), Max(1, max_items)))
    /\ pc' = "write"
    /\ UNCHANGED <<max_items, links, idx, log, feed, page, unique, art, res, src, description>>

\* lines 281-283
WriteFeed ==
    /\ pc = "write"
    /\ feed' = build_rss(items)
    /\ pc' = "done"
    /\ UNCHANGED <<max_items, links, idx, items, log, page, unique, art, res, src, description>>

Next ==
    \/ ParseList
    \/ ParseListRaises
    \/ ArticleSkipped
    \/ ArticleBuilt
    \/ SortItems
    \/ SortRaises
    \/ LimitItems
    \/ WriteFeed

Spec == Init /\ [][Next]_vars

-----------------------------------------------------------------------------
\* C1: the list returned by parse_list has pairwise distinct URL paths, has no
\* entry for the bare index path, and holds, in order of first occurrence on
\* the page, the absolute form of the first kept link of every kept path; the
\* page a, a?ref=1, b, /no/artikkel yields exactly a then b.
PathA == <<"/", "no", "/", "artikkel", "/", "a">>

PathB == <<"/", "no", "/", "artikkel", "/", "b">>

FirstAt(p) == CHOOSE i \in 1..Len(page) :
                 /\ KeepHref(Origin, page[i]) /\ UrlPath(to_abs(Origin, page[i])) = p
                 /\ \A j \in 1..(i - 1) :
                       ~(KeepHref(Origin, page[j]) /\ UrlPath(to_abs(Origin, page[j])) = p)

C1_DedupFirstSeen ==
    pc = "list_out" =>
        /\ \A i, j \in 1..Len(unique) : i # j => UrlPath(unique[i]) # UrlPath(unique[j])
        /\ \A i \in 1..Len(unique) :
              /\ Strip(UrlPath(unique[i]), {"/"}) # <<"no", "/", "artikkel">>
              /\ StartsWith(UrlPath(unique[i]), ArticlePrefix)
              /\ \E k \in 1..Len(page) :
                    KeepHref(Origin, page[k]) /\ UrlPath(to_abs(Origin, page[k])) = UrlPath(unique[i])
              /\ unique[i] = to_abs(Origin, page[FirstAt(UrlPath(unique[i]))])
        /\ \A i, j \in 1..Len(unique) :
              i < j => FirstAt(UrlPath(unique[i])) < FirstAt(UrlPath(unique[j]))
        /\ \A k \in 1..Len(page) :
              KeepHref(Origin, page[k]) =>
                 \E i \in 1..Len(unique) : UrlPath(unique[i]) = UrlPath(to_abs(Origin, page[k]))
        /\ (page = << PathA, PathA \o <<"?", "ref=1">>, PathB, <<"/", "no", "/", "artikkel">> >>
              => unique = << <<Origin>> \o PathA, <<Origin>> \o PathB >>)

C1_Witness ==
    /\ pc = "list_out"
    /\ page = << PathA, PathA \o <<"?", "ref=1">>, PathB, <<"/", "no", "/", "artikkel">> >>
    /\ unique = << <<Origin>> \o PathA, <<Origin>> \o PathB >>

\* C9: two kept links whose paths differ at most by a trailing slash (and
\* whose query strings may differ) give one entry of the returned list.
SameLink(u, v) == Strip(UrlPath(u), {"/"}) = Strip(UrlPath(v), {"/"})

C9_TwiceCountsOnce ==
    pc = "list_out" =>
        \A i, j \in 1..Len(unique) : SameLink(unique[i], unique[j]) => i = j

\* C4: the tiers are tried in the order meta tag, time element, JSON-LD, HEAD:
\* the resolved date is the value of the first tier that yields a date (none
\* when no tier does), and HEAD is requested exactly when none of the first
\* three tiers yielded a date.
FirstSome(ds) == IF \E i \in 1..Len(ds) : ds[i].some
                 THEN ds[CHOOSE i \in 1..Len(ds) : ds[i].some /\ \A j \in 1..(i - 1) : ~ds[j].some]
                 ELSE None

C4_TierOrder ==
    pc = "date_out" =>
        /\ res.pub = FirstSome(<<MetaTier(art), TimeTier(art), JsonldTier(art), HeadTier(art)>>)
        /\ res.head <=> (~MetaTier(art).some /\ ~TimeTier(art).some /\ ~JsonldTier(art).some)

C4_Witness ==
    /\ pc = "date_out"
    /\ MetaTier(art).some
    /\ JsonldTier(art).some
    /\ JsonldTier(art) # MetaTier(art)
    /\ res.pub = MetaTier(art)
    /\ ~res.head

\* C8 as stated: the description has at most 240 characters and ends in the
\* ellipsis if and only if the cleaned text had more than 240 characters.
EndsInEllipsis(t) == t # <<>> /\ t[Len(t)] = Ellipsis

C8_EllipsisIffTruncated ==
    pc = "desc_out" =>
        /\ Len(description) <= 240
        /\ EndsInEllipsis(description) <=> Len(clean_text(pick_desc(src))) > 240

\* C8 amended: the description has at most 240 characters; when the cleaned
\* text has more than 240 characters it is the first 239 of them followed by
\* the ellipsis, otherwise it is the cleaned text unchanged (which ends in an
\* ellipsis only when the cleaned text itself does).
C8_Truncation ==
    pc = "desc_out" =>
        LET t == clean_text(pick_desc(src))
        IN  /\ Len(description) <= 240
            /\ Len(t) > 240 =>
                  /\ Len(description) = 240
                  /\ SubSeq(description, 1, 239) = SubSeq(t, 1, 239)
                  /\ description[240] = Ellipsis
            /\ Len(t) <= 240 => description = t

C8_Witness ==
    /\ pc = "desc_out"
    /\ Len(clean_text(pick_desc(src))) = 241
    /\ Len(description) = 240
    /\ description[240] = Ellipsis
    /\ description[239] = "a"

-----------------------------------------------------------------------------
(* Claims about a whole run *)

ArticleGets == SelectSeq(log, LAMBDA e : e.op = "GET")

OkGets == SelectSeq(log, LAMBDA e : e.op = "GET" /\ e.ok)

Urls(es) == [i \in 1..Len(es) |-> es[i].url]

ItemLinks == [i \in 1..Len(items) |-> items[i].link]

ListFailed == log # <<>> /\ log[1].op = "GET_LIST" /\ ~log[1].ok

\* the instant a rendered pubDate names
FeedInstant(e) == e.pubDate.wall - (IF e.pubDate.zone = "+0100" THEN 1 ELSE 0)

\* C2: in the written feed every item with a pubDate precedes every item
\* without one, and adjacent dated items are in non-increasing timestamp order.
C2_FeedOrder ==
    pc = "done" =>
        /\ \A i, j \in 1..Len(feed) : (i < j /\ feed[j].has_pubDate) => feed[i].has_pubDate
        /\ \A i \in 1..(Len(feed) - 1) :
              (feed[i].has_pubDate /\ feed[i + 1].has_pubDate)
                  => FeedInstant(feed[i]) >= FeedInstant(feed[i + 1])

C2_Witness ==
    /\ pc = "done"
    /\ Len(feed) = 3
    /\ feed[1].has_pubDate /\ feed[2].has_pubDate /\ ~feed[3].has_pubDate
    /\ FeedInstant(feed[1]) > FeedInstant(feed[2])
    /\ feed[1].link = links[3]
    /\ feed[3].link = links[1]

\* C3: an article whose fetch fails gives no item and does not stop the run:
\* during the loop the items are exactly the articles fetched successfully, in
\* order, all links are requested before the loop ends, and an exception is
\* never raised from an article fetch; a failed listing fetch ends the run
\* after that one request and without a feed.
C3_FetchFailureIsolated ==
    /\ pc = "loop" =>
          /\ ItemLinks = Urls(OkGets)
          /\ Urls(ArticleGets) = SubSeq(links, 1, idx - 1)
    /\ pc \in {"limit", "write", "done"} => Urls(ArticleGets) = links
    /\ pc = "done" => Len(feed) <= Len(OkGets)
    /\ (pc = "raised" /\ ~ListFailed) => Urls(ArticleGets) = links
    /\ ListFailed => (pc = "raised" /\ Len(log) = 1 /\ feed = <<>> /\ items = <<>>)

C3_Witness ==
    /\ pc = "done"
    /\ Len(links) = 3
    /\ ~ArticleGets[1].ok /\ ArticleGets[2].ok /\ ~ArticleGets[3].ok
    /\ Len(feed) = 1
    /\ feed[1].link = links[2]

\* C5 as stated: the pubDate of every item is absent or carries a timezone.
C5_PubDateAware ==
    \A i \in 1..Len(items) : items[i].pubDate.some => items[i].pubDate.aware

\* C6 as stated: once the listing was fetched the run never ends in an
\* exception, whatever the articles' fetch outcomes and date strings.
C6_RunCompletes == pc = "raised" => ListFailed

\* C7: the written feed has min(max(1, max_items), number of articles fetched
\* successfully) items.
C7_FeedLength ==
    pc = "done" => Len(feed) = Min(Max(1, max_items), Len(OkGets))

C7_Witness ==
    /\ pc = "done"
    /\ max_items < 1
    /\ Len(OkGets) >= 2
    /\ Len(feed) = 1

\* C10: the listing is requested once and first; the articles are requested
\* one at a time in the order of the links, each page once; a HEAD request
\* directly follows the successful GET of the same article and nothing else;
\* every article, fetched or not, is followed by one sleep before the next
\* request.
C10_RequestOrder ==
    /\ pc = "start" <=> log = <<>>
    /\ \A p \in 1..Len(log) : (log[p].op = "GET_LIST") <=> p = 1
    /\ Urls(ArticleGets) = SubSeq(links, 1, idx - 1)
    /\ \A p \in 2..Len(log) :
          /\ log[p].op = "GET" =>
                /\ log[p - 1].op \in {"GET_LIST", "SLEEP"}
                /\ p < Len(log)
                /\ log[p + 1].op \in {"HEAD", "SLEEP"}
          /\ log[p].op = "HEAD" =>
                /\ log[p - 1].op = "GET" /\ log[p - 1].ok /\ log[p - 1].url = log[p].url
                /\ p < Len(log)
                /\ log[p + 1].op = "SLEEP"
          /\ log[p].op = "SLEEP" => log[p - 1].op \in {"GET", "HEAD"}
    /\ pc \in {"limit", "write", "done"} => Urls(ArticleGets) = links

C10_Witness ==
    /\ pc = "done"
    /\ Len(links) = 2
    /\ Len(log) = 6
    /\ log[2].op = "GET" /\ ~log[2].ok /\ log[3].op = "SLEEP"
    /\ log[4].op = "GET" /\ log[4].ok /\ log[5].op = "HEAD" /\ log[6].op = "SLEEP"

====
